---- MODULE Spec2Model ----
(***************************************************************************)
(* ProphetService (backend/python/prophet_service.py): data preparation,   *)
(* the per-retailer model files, train / load / predict, and the           *)
(* confidence score.  KaggleTransportService                               *)
(* (backend/python/kaggle_transport_service.py): load_transport_data and   *)
(* its cache file.                                                         *)
(*                                                                         *)
(* Numbers.  Floats are fixed point with Scale units to 1.0, extended with *)
(* the IEEE values the arithmetic of pandas/numpy produces instead of      *)
(* raising: NaN and +/-Inf.  Time stamps are whole hours; a calendar date  *)
(* is the hour count of its midnight.                                      *)
(***************************************************************************)
EXTENDS Integers, Sequences, FiniteSets, TLC

VARIABLES
    store,      \* the files of MODEL_DIR: slot name -> Absent, Corrupt or a model
    model,      \* self.model of the running service
    cps,        \* self.changepoint_prior_scale of the running service
    now,        \* datetime.now(), in days
    res,        \* the last call: its input and what it returned or raised
    procs,      \* train_model calls under way in other processes: where each stands
    cache,      \* the file at CACHE_FILE of the transport service
    clock       \* datetime.now() of the transport service, in hours

vars == <<store, model, cps, now, res, procs, cache, clock>>

----------------------------------------------------------------------------
(* Bounds of the model *)

MaxLen == 3         \* longest raw history drawn for _prepare_data alone
MaxClock == 1       \* datetime.now() ranges over 0..MaxClock days
MaxPeriods == 2     \* largest predict_periods requested
MaxPoints == 2      \* longest forecast handed to _calculate_confidence alone
MaxChunks == 2      \* pieces joblib.dump writes a model file in
MaxShort == 2       \* longest raw history drawn for the future frame alone

----------------------------------------------------------------------------
(* Program constants *)

Scale == 10 * 100               \* fixed-point units per 1.0
HoursPerDay == 24               \* timedelta(days=1) in units of timedelta(hours=1)
MinRows == 10                   \* len(df) < 10
TailLen == 7                    \* tail(7)
Neutral == 500                  \* 0.5
DEFAULT_CHANGEPOINT_PRIOR_SCALE == 50   \* 0.05

----------------------------------------------------------------------------
(* Extended numbers *)

Num(v) == [k |-> "num", v |-> v]
NaN == [k |-> "nan", v |-> 0]
PosInf == [k |-> "inf", v |-> 1]
NegInf == [k |-> "inf", v |-> -1]

IsNum(x) == x.k = "num"
IsNaN(x) == x.k = "nan"

Abs(i) == IF i < 0 THEN -i ELSE i
Sign(i) == IF i < 0 THEN -1 ELSE IF i > 0 THEN 1 ELSE 0

ENeg(x) == IF IsNaN(x) THEN NaN ELSE [k |-> x.k, v |-> -x.v]

EAdd(x, y) ==
    CASE IsNaN(x) \/ IsNaN(y) -> NaN
      [] IsNum(x) /\ IsNum(y) -> Num(x.v + y.v)
      [] IsNum(x) -> y
      [] IsNum(y) -> x
      [] OTHER -> IF x.v = y.v THEN x ELSE NaN

ESub(x, y) == EAdd(x, ENeg(y))

\* x * (n/d) for a positive constant n/d
EMulC(x, n, d) == IF IsNum(x) THEN Num((x.v * n) \div d) ELSE x

\* IEEE division of two values of the same unit; the quotient has `unit` units to 1.0
EDiv(x, y, unit) ==
    CASE IsNaN(x) \/ IsNaN(y) -> NaN
      [] IsNum(x) /\ IsNum(y) ->
            IF y.v = 0
            THEN (IF x.v = 0 THEN NaN ELSE [k |-> "inf", v |-> Sign(x.v)])
            ELSE Num((x.v * unit) \div y.v)
      [] IsNum(y) -> [k |-> "inf", v |-> x.v * (IF y.v < 0 THEN -1 ELSE 1)]
      [] IsNum(x) -> Num(0)
      [] OTHER -> NaN

\* x < y as IEEE has it: false whenever a NaN is involved
ELt(x, y) ==
    CASE IsNaN(x) \/ IsNaN(y) -> FALSE
      [] IsNum(x) /\ IsNum(y) -> x.v < y.v
      [] IsNum(x) -> y.v > 0
      [] IsNum(y) -> x.v < 0
      [] OTHER -> x.v < y.v

\* Python's min(a, b) and max(a, b): a unless b compares below (above) it
PyMin(a, b) == IF ELt(b, a) THEN b ELSE a
PyMax(a, b) == IF ELt(a, b) THEN b ELSE a

RECURSIVE ISqrtIn(_, _, _)
ISqrtIn(x, lo, hi) ==
    IF lo >= hi THEN lo
    ELSE LET mid == (lo + hi + 1) \div 2
         IN  IF mid * mid <= x THEN ISqrtIn(x, mid, hi) ELSE ISqrtIn(x, lo, mid - 1)

\* floor of the square root
ISqrt(x) == ISqrtIn(x, 0, IF x < 46340 THEN x ELSE 46340)

RECURSIVE SumTo(_, _)
SumTo(f, n) == IF n = 0 THEN 0 ELSE f[n] + SumTo(f, n - 1)

RECURSIVE ESumTo(_, _)
ESumTo(f, n) == IF n = 0 THEN Num(0) ELSE EAdd(f[n], ESumTo(f, n - 1))

----------------------------------------------------------------------------
(* Errors: the messages of the exceptions the service raises or lets through *)

NoError == "none"
ErrColumns == "History data must contain 'ds' and 'y' columns"
ErrNumeric == "Unable to parse string"
ErrInsufficient == "Insufficient data for training"
ErrNoModel == "No history data provided and no trained model available"
ErrFit == "Dataframe has less than 2 non-NaN rows"
ErrWrite == "OSError"
ErrNoRows == "Dataframe has no rows"

----------------------------------------------------------------------------
(* Raw history records, as they arrive in the request *)

Missing == [k |-> "missing", v |-> 0]   \* the key is not in the record
Str == [k |-> "str", v |-> 0]           \* a value that is no number, such as "n/a"
NoTime == -1                            \* a ds string holding a date only

regressors == <<"weather_score", "transport_score", "foot_traffic_score">>

RawRow(ds, y, w, t, f) ==
    [ds |-> ds, y |-> y, weather_score |-> w, transport_score |-> t,
     foot_traffic_score |-> f]

\* pd.DataFrame(history_data): a column exists when some record has the key
HasColumn(history_data, col) ==
    \E i \in 1..Len(history_data) : history_data[i][col] # Missing

\* pd.to_datetime: "2025-01-02" and "2025-01-02 00:00:00" are the same stamp
ToDatetime(ds) == ds.d * HoursPerDay + (IF ds.h = NoTime THEN 0 ELSE ds.h)

\* pd.to_numeric(..., errors='coerce'): what is no number becomes NaN
ToNumericCoerce(x) == IF IsNum(x) THEN x ELSE NaN

Fillna(x, fill) == IF IsNaN(x) THEN fill ELSE x.v

ClipUpperOnly(v, lo, hi) == IF v > hi THEN hi ELSE v
\* np.clip
Clip(v, lo, hi) == IF v < lo THEN lo ELSE IF v > hi THEN hi ELSE v

\* lines 125-134: one regressor value of one row
RegressorValue(history_data, x, col) ==
    IF ~HasColumn(history_data, col) THEN Neutral
    ELSE Clip(Fillna(ToNumericCoerce(x), Neutral), 0, Scale)

ConvertRow(history_data, r) ==
    [ds |-> ToDatetime(r.ds),
     y |-> ToNumericCoerce(r.y),
     weather_score |-> RegressorValue(history_data, r.weather_score, "weather_score"),
     transport_score |-> RegressorValue(history_data, r.transport_score, "transport_score"),
     foot_traffic_score |->
         RegressorValue(history_data, r.foot_traffic_score, "foot_traffic_score")]

Front(s) == SubSeq(s, 1, Len(s) - 1)
Last(s) == s[Len(s)]

DropDuplicatesNot(rows) == rows

RECURSIVE DropDuplicatesKeepLast(_)
DropDuplicatesKeepLast(rows) ==
    IF rows = <<>> THEN <<>>
    ELSE IF \E i \in 2..Len(rows) : rows[i].ds = rows[1].ds
         THEN DropDuplicatesKeepLast(Tail(rows))
         ELSE <<rows[1]>> \o DropDuplicatesKeepLast(Tail(rows))

\* df.drop_duplicates(subset=['ds']): keep='first' is the default
RECURSIVE DropDuplicates(_)
DropDuplicates(rows) ==
    IF rows = <<>> THEN <<>>
    ELSE LET kept == DropDuplicates(Front(rows))
         IN  IF \E i \in 1..Len(kept) : kept[i].ds = Last(rows).ds
             THEN kept
             ELSE Append(kept, Last(rows))

Insert(sorted, r) ==
    LET k == Cardinality({i \in 1..Len(sorted) : sorted[i].ds <= r.ds})
    IN  SubSeq(sorted, 1, k) \o <<r>> \o SubSeq(sorted, k + 1, Len(sorted))

\* df.sort_values('ds')
RECURSIVE SortValues(_)
SortValues(rows) ==
    IF rows = <<>> THEN <<>> ELSE Insert(SortValues(Front(rows)), Last(rows))

Raised(e) == [err |-> e, df |-> <<>>]
Returned(df) == [err |-> NoError, df |-> df]

\* ProphetService._prepare_data
PrepareData(history_data) ==
    IF ~HasColumn(history_data, "ds") \/ ~HasColumn(history_data, "y")
    THEN Raised(ErrColumns)
    ELSE IF \E i \in 1..Len(history_data) : history_data[i].y = Str
    THEN Raised(ErrNumeric)
    ELSE Returned(SortValues(DropDuplicates(
             [i \in 1..Len(history_data) |-> ConvertRow(history_data, history_data[i])])))

----------------------------------------------------------------------------
(* The histories requests carry *)

DateOnly(d) == [d |-> d, h |-> NoTime]
DateTime(d, h) == [d |-> d, h |-> h]

\* n daily records without regressor fields, as the scenarios of
\* test_confidence_only.py
DailyHistory(first, n, y) ==
    [i \in 1..n |-> RawRow(DateOnly(first + i - 1), Num(y + i), Missing, Missing, Missing)]

\* n hourly records of one day with regressor values of every kind
HourlyHistory(day, hour, n) ==
    [i \in 1..n |->
        RawRow(DateTime(day, hour + i - 1), Num(50), Num(150 * i), Str,
               IF i = n THEN Missing ELSE Num(-200))]

HistoryA == DailyHistory(0, MinRows, 1000)
HistoryB == HourlyHistory(3, HoursPerDay - MinRows - 1, MinRows + 1)
\* MinRows records, two of them the same day in two spellings
HistoryDup ==
    DailyHistory(0, MinRows - 1, 1000)
        \o <<RawRow(DateTime(0, 0), Num(7), Missing, Missing, Missing)>>
HistoryShort ==
    <<RawRow(DateTime(5, 23), Num(1), Num(2000), Num(400), Missing),
      RawRow(DateTime(5, 22), Num(2), Num(600), Str, Missing)>>
HistoryStr == <<RawRow(DateOnly(0), Str, Missing, Missing, Missing)>>
\* MinRows records of which only the first has a y
HistoryFewY ==
    [i \in 1..MinRows |->
        RawRow(DateOnly(i), IF i = 1 THEN Num(5) ELSE Missing, Missing, Missing, Missing)]

Histories == {<<>>, HistoryA, HistoryB, HistoryDup, HistoryShort, HistoryStr, HistoryFewY}

\* The frames of these histories, prepared once
PreparedHistories == [h \in Histories |-> PrepareData(h)] @@ <<>>

\* self._prepare_data(history_data)
Prepared(history_data) ==
    IF history_data \in Histories
    THEN PreparedHistories[history_data]
    ELSE PrepareData(history_data)

----------------------------------------------------------------------------
(* The model files and the Prophet capability *)

None == "None"                  \* retailer_id absent from the request
RetailerIds == {None, "", "A"}

SlotOfShared(retailer_id) == <<"prophet_model">>
\* "if retailer_id:" -- None and the empty string select the default file
SlotOf(retailer_id) ==
    IF retailer_id \in {None, ""}
    THEN <<"prophet_model">>
    ELSE <<"prophet_model", retailer_id>>

Slots == {SlotOf(r) : r \in RetailerIds}

Absent == [k |-> "absent"]      \* no file at the path
Corrupt == [k |-> "corrupt"]    \* a file joblib.load cannot read
NoModel == [k |-> "none"]       \* self.model = None

\* Prophet(...) of _create_model, before fit
CreateModel(c) == [k |-> "unfitted", cps |-> c]

\* model.fit(df): needs two rows with a y; the fitted model is identified by
\* the frame it was fitted on, its hyperparameter and the day of the fit
FitFails(df) == Cardinality({i \in 1..Len(df) : IsNum(df[i].y)}) < 2
Fit(m, df, day) == [k |-> "fitted", cps |-> m.cps, df |-> df, at |-> day]

IsFitted(m) == m.k = "fitted"

LoadModelDefaultOnly(files, self_model, retailer_id) ==
    LET f == files[SlotOf(None)]
    IN  IF IsFitted(f) THEN [ok |-> TRUE, model |-> f]
        ELSE [ok |-> FALSE, model |-> self_model]

LoadModelKeepsHeld(files, self_model, retailer_id) ==
    LET f == files[SlotOf(retailer_id)]
    IN  IF IsFitted(f) THEN [ok |-> TRUE, model |-> f]
        ELSE [ok |-> IsFitted(self_model), model |-> self_model]

\* ProphetService.load_model: <<returned flag, self.model afterwards>>
LoadModelCall(files, self_model, retailer_id) ==
    LET f == files[SlotOf(retailer_id)]
    IN  IF f = Absent THEN [ok |-> FALSE, model |-> self_model]
        ELSE IF f = Corrupt THEN [ok |-> FALSE, model |-> self_model]
        ELSE [ok |-> TRUE, model |-> f]

WriteOutcomes == {"ok", "denied", "partial"}

JoblibDumpSwallows(files, path, m, write) ==
    [err |-> NoError,
     store |-> IF write = "ok" THEN [files EXCEPT ![path] = m]
               ELSE IF write = "partial" THEN [files EXCEPT ![path] = Corrupt]
               ELSE files]
\* lines 165-166, MODEL_DIR.mkdir and joblib.dump(self.model, model_path): the
\* file holds the model, or the path cannot be opened and the file is as it
\* was, or the write stops after the file was truncated
JoblibDump(files, path, m, write) ==
    CASE write = "ok" -> [err |-> NoError, store |-> [files EXCEPT ![path] = m]]
      [] write = "denied" -> [err |-> ErrWrite, store |-> files]
      [] write = "partial" -> [err |-> ErrWrite, store |-> [files EXCEPT ![path] = Corrupt]]

TooFewOffByOne(df) == Len(df) < MinRows - 1
\* line 150: "if len(df) < 10"
TooFew(df) == Len(df) < MinRows

\* ProphetService.train_model.  write is what joblib.dump meets on the disk:
\* it completes, it cannot open the file, or it fails after truncating it.
TrainModelCall(files, self_model, history_data, retailer_id, write) ==
    LET p == Prepared(history_data)
        fail(e, m, fs, ev) ==
            [err |-> e, model |-> m, store |-> fs, events |-> ev, out |-> [status |-> "failed"]]
    IN  IF p.err # NoError THEN fail(p.err, self_model, files, <<>>)
        ELSE IF TooFew(p.df)
        THEN fail(ErrInsufficient, self_model, files, <<"prepare">>)
        ELSE IF FitFails(p.df)
        THEN fail(ErrFit, CreateModel(cps), files, <<"prepare", "create">>)
        ELSE LET m == Fit(CreateModel(cps), p.df, now)
                 path == SlotOf(retailer_id)
                 d == JoblibDump(files, path, m, write)
             IN  IF d.err = NoError
                 THEN [err |-> NoError, model |-> m, store |-> d.store,
                       events |-> <<"prepare", "create", "fit", "save">>,
                       out |-> [status |-> "success", trained_on |-> now,
                                data_points |-> Len(p.df), model_path |-> path]]
                 ELSE fail(d.err, m, d.store, <<"prepare", "create", "fit">>)

----------------------------------------------------------------------------
(* ProphetService._calculate_confidence *)

Prec == 10 * 10                 \* units per 1.0 of yhat in its mean and deviation
ConfLow == 650                  \* 0.65
ConfHigh == 920                 \* 0.92
VariabilityCap == 150           \* 0.15
TrendCap == 100                 \* 0.1
JitterSpan == 40                \* 0.04
FallbackMid == 750              \* 0.75
FallbackSpan == 100             \* 0.1

\* random.random(), in units of 1/Scale
RandomDraws == {0, Scale \div 2, Scale - 1}

Yhat(forecast) == [i \in 1..Len(forecast) |-> forecast[i].yhat]

\* (yhat_upper - yhat_lower) / yhat.abs(), element by element: never raises
Widths(forecast) ==
    [i \in 1..Len(forecast) |->
        EDiv(Num(forecast[i].yhat_upper - forecast[i].yhat_lower),
             Num(Abs(forecast[i].yhat)), Scale)]

\* Series.mean(): NaN entries are skipped, NaN when nothing is left
SeriesMean(xs) ==
    LET valid == {i \in 1..Len(xs) : ~IsNaN(xs[i])}
        total == ESumTo([i \in 1..Len(xs) |-> IF IsNaN(xs[i]) THEN Num(0) ELSE xs[i]],
                        Len(xs))
    IN  IF valid = {} THEN NaN
        ELSE IF IsNum(total) THEN Num(total.v \div Cardinality(valid))
        ELSE total

\* forecast['yhat'].mean()
MeanYhat(ys) ==
    IF Len(ys) = 0 THEN NaN ELSE Num((SumTo(ys, Len(ys)) * Prec) \div Len(ys))

\* forecast['yhat'].std(): the sample deviation, NaN below two points
StdYhat(ys) ==
    LET n == Len(ys)
        s1 == SumTo(ys, n)
        s2 == SumTo([i \in 1..n |-> ys[i] * ys[i]], n)
    IN  IF n < 2 THEN NaN
        ELSE Num(ISqrt(((n * s2 - s1 * s1) * Prec * Prec) \div (n * (n - 1))))

\* abs(forecast['yhat'].diff()).sum(): the first difference is NaN and skipped
AbsDiffSum(ys) ==
    SumTo([i \in 1..Len(ys) |-> IF i = 1 THEN 0 ELSE Abs(ys[i] - ys[i - 1])], Len(ys))

\* A scalar division by zero: numpy scalars give inf or NaN, Python floats raise
\* ZeroDivisionError.  strict tells which kind the installed pandas returns.
ScalarDivisionRaises(ys, strict) ==
    strict /\ (Len(ys) = 0 \/ SumTo(ys, Len(ys)) = 0)

\* max(0.65, min(0.92, confidence))
Clamp(x) == PyMax(Num(ConfLow), PyMin(Num(ConfHigh), x))

NoReclamp(x) == x
\* line 329: the second clamp
Reclamp(x) == Clamp(x)

FallbackUnbounded(r) == FallbackMid + (r - Scale \div 2)
\* line 335
Fallback(r) == FallbackMid + ((r - Scale \div 2) * FallbackSpan) \div Scale

\* r is the draw of random.random()
CalculateConfidence(forecast, r, strict) ==
    LET ys == Yhat(forecast)
        avg_width == SeriesMean(Widths(forecast))
        base_confidence == ESub(Num(Scale), EMulC(avg_width, 1, 3))
        prediction_variance == EDiv(StdYhat(ys), MeanYhat(ys), Scale)
        variability_penalty == PyMin(Num(VariabilityCap), EMulC(prediction_variance, 1, 2))
        trend_changes == EDiv(Num(AbsDiffSum(ys) * Prec), Num(Len(ys)), 1)
        trend_penalty ==
            PyMin(Num(TrendCap), EMulC(EDiv(trend_changes, MeanYhat(ys), Scale), 3, 10))
        raw == ESub(ESub(base_confidence, variability_penalty), trend_penalty)
        first == Clamp(raw)
        random_adjustment == ((r - Scale \div 2) * JitterSpan) \div Scale
        final == Reclamp(EAdd(first, Num(random_adjustment)))
    IN  IF ScalarDivisionRaises(ys, strict)
        THEN [confidence |-> Fallback(r), first |-> Fallback(r), path |-> "fallback"]
        ELSE [confidence |-> final.v, first |-> first.v, path |-> "main"]

----------------------------------------------------------------------------
(* ProphetService.predict *)

ErrNotFitted == "Model has not been fit"

ForecastShapes == {"flat", "wide", "zero"}

\* What the fitted model answers for the i-th future row is the model's own
\* business: any of these shapes may come back.
ShapePoint(shape, i) ==
    CASE shape = "flat" -> [yhat |-> 100, yhat_lower |-> 98, yhat_upper |-> 102]
      [] shape = "wide" -> [yhat |-> 30 * i, yhat_lower |-> 0, yhat_upper |-> 90]
      [] OTHER -> [yhat |-> 0, yhat_lower |-> -5, yhat_upper |-> 5]

\* self.model.predict(future_df): one row per future row, in its order
ModelPredict(future_df, shape) ==
    [i \in 1..Len(future_df) |->
        [ds |-> future_df[i].ds,
         yhat |-> ShapePoint(shape, i).yhat,
         yhat_lower |-> ShapePoint(shape, i).yhat_lower,
         yhat_upper |-> ShapePoint(shape, i).yhat_upper]]

MustTrainOnlyWithHistory(model_loaded, history_data) == history_data # <<>>
\* line 213: "if not model_loaded or not history_data"
MustTrain(model_loaded, history_data) == ~model_loaded \/ history_data = <<>>

\* df_history['ds'].max()
MaxDs(df) == CHOOSE t \in {df[i].ds : i \in 1..Len(df)} : \A i \in 1..Len(df) : df[i].ds <= t

\* datetime.now().date() - timedelta(days=1), as a Timestamp
Yesterday == (now - 1) * HoursPerDay

\* timedelta(days=1) or timedelta(hours=1); an unknown freq is daily
Step(freq) == IF freq = "H" THEN 1 ELSE HoursPerDay

\* pd.date_range(start=..., periods=..., freq=...)
DateRange(start, periods, step) == [i \in 1..periods |-> start + (i - 1) * step]

TailMeanAll(df, col) == SumTo([i \in 1..Len(df) |-> df[i][col]], Len(df)) \div Len(df)
\* df_history[regressor].tail(7).mean()
TailMean(df, col) ==
    LET n == Len(df)
        k == IF n < TailLen THEN n ELSE TailLen
    IN  SumTo([i \in 1..k |-> df[n - k + i][col]], k) \div k

\* strftime('%Y-%m-%d'): the calendar day, the hour is dropped
Strftime(t) == t \div HoursPerDay

FutureFrame(df_history, has_history, future_dates) ==
    [i \in 1..Len(future_dates) |->
        [ds |-> future_dates[i],
         weather_score |->
            IF has_history THEN TailMean(df_history, "weather_score") ELSE Neutral,
         transport_score |->
            IF has_history THEN TailMean(df_history, "transport_score") ELSE Neutral,
         foot_traffic_score |->
            IF has_history THEN TailMean(df_history, "foot_traffic_score") ELSE Neutral]]

Predictions(forecast) ==
    [i \in 1..Len(forecast) |->
        [ds |-> Strftime(forecast[i].ds), yhat |-> forecast[i].yhat,
         yhat_lower |-> forecast[i].yhat_lower, yhat_upper |-> forecast[i].yhat_upper]]

\* lines 210-219: load, then train when must_train says so.  write is the
\* disk's answer to joblib.dump, should the call come to it.
LoadOrTrain(files, self_model, history_data, retailer_id, write) ==
    LET loaded == LoadModelCall(files, self_model, retailer_id)
        t == TrainModelCall(files, loaded.model, history_data, retailer_id, write)
        ev == <<IF loaded.ok THEN "load" ELSE "load failed">>
    IN  IF ~MustTrain(loaded.ok, history_data)
        THEN [err |-> NoError, model |-> loaded.model, store |-> files, events |-> ev]
        ELSE IF history_data = <<>>
        THEN [err |-> ErrNoModel, model |-> loaded.model, store |-> files, events |-> ev]
        ELSE [err |-> t.err, model |-> t.model, store |-> t.store,
              events |-> ev \o <<"train">> \o t.events]

\* lines 221-264: the future frame of the request
FutureOf(history_data, predict_periods, freq) ==
    LET p == Prepared(history_data)
        has_history == history_data # <<>>
        last_date == IF has_history THEN MaxDs(p.df) ELSE Yesterday
        future_dates == DateRange(last_date + Step(freq), predict_periods, Step(freq))
    IN  IF has_history /\ p.err # NoError
        THEN [err |-> p.err, future_df |-> <<>>]
        ELSE [err |-> NoError, future_df |-> FutureFrame(p.df, has_history, future_dates)]

\* lines 266-297: forecast, score and build the result.  shape, r and strict
\* are what the fitted model, random.random() and the installed pandas
\* contribute.
ForecastResult(m, future_df, predict_periods, freq, retailer_id, shape, r, strict) ==
    LET forecast == ModelPredict(future_df, shape)
        confidence == CalculateConfidence(forecast, r, strict)
    IN  [predictions |-> Predictions(forecast),
         model_meta |->
            [trained_on |-> now, method |-> "prophet",
             changepoint_prior_scale |-> cps,
             retailer_id |-> retailer_id,
             predict_periods |-> predict_periods,
             frequency |-> freq],
         confidence |-> confidence.confidence,
         scoring |-> confidence.path,
         future_df |-> future_df,
         used |-> m]

\* ProphetService.predict
PredictCall(files, self_model, history_data, periods, freq, id, write, shape, r, strict) ==
    LET lt == LoadOrTrain(files, self_model, history_data, id, write)
        f == FutureOf(history_data, periods, freq)
        fail(e) ==
            [err |-> e, model |-> lt.model, store |-> lt.store, events |-> lt.events,
             out |-> [status |-> "failed"]]
    IN  IF lt.err # NoError THEN fail(lt.err)
        ELSE IF f.err # NoError THEN fail(f.err)
        ELSE IF ~IsFitted(lt.model) THEN fail(ErrNotFitted)
        ELSE IF Len(f.future_df) = 0 THEN fail(ErrNoRows)
        ELSE [err |-> NoError, model |-> lt.model, store |-> lt.store,
              events |-> lt.events \o <<"predict">>,
              out |-> ForecastResult(lt.model, f.future_df, periods, freq,
                                    id, shape, r, strict)]

----------------------------------------------------------------------------
(* Requests *)

Freqs == {"D", "H", "W"}
Periods == 0..MaxPeriods

Request(retailer_id, history, predict_periods, freq) ==
    [retailer_id |-> retailer_id, history |-> history,
     predict_periods |-> predict_periods, freq |-> freq]

\* every retailer with every history, and every horizon for some histories
Requests ==
    {Request(id, h, 1, "D") : id \in RetailerIds, h \in Histories}
    \cup {Request(None, h, n, f) :
            h \in {<<>>, HistoryA, HistoryB, HistoryShort}, n \in Periods, f \in Freqs}

Env(shape, r, strict) == [shape |-> shape, r |-> r, strict |-> strict]

\* what the fitted model, random.random() and pandas contribute to a forecast
Envs ==
    {Env("flat", 0, FALSE), Env("flat", Scale - 1, FALSE), Env("wide", Scale \div 2, FALSE),
     Env("zero", 0, FALSE), Env("zero", Scale \div 2, TRUE), Env("zero", 0, TRUE),
     Env("zero", Scale - 1, TRUE)}

Call(op, req, err, events, out) ==
    [op |-> op, retailer_id |-> req.retailer_id, history |-> req.history,
     predict_periods |-> req.predict_periods, freq |-> req.freq, err |-> err,
     events |-> events, out |-> out]

NoCall == Call("init", Request(None, <<>>, 0, "D"), NoError, <<>>, [status |-> "none"])

Range(s) == {s[i] : i \in 1..Len(s)}

----------------------------------------------------------------------------
(* The service *)

CpsValues == {DEFAULT_CHANGEPOINT_PRIOR_SCALE}

Procs == {1, 2}
Idle == [pc |-> "idle"]

\* ProphetService.__init__, over whatever MODEL_DIR holds
Init ==
    /\ procs = [p \in Procs |-> Idle]
    /\ store \in [Slots -> {Absent, Corrupt}]
    /\ model = NoModel
    /\ cps \in CpsValues
    /\ now = 0
    /\ res = NoCall
    /\ cache = Absent
    /\ clock = 0

\* The caller takes the result; the next call can be made
Return ==
    /\ res # NoCall
    /\ res' = NoCall
    /\ UNCHANGED <<cache, clock, procs, store, model, cps, now>>

\* main(): a new process constructs a new service
Restart ==
    /\ res = NoCall
    /\ \E c \in CpsValues : cps' = c
    /\ model' = NoModel
    /\ res' = NoCall
    /\ UNCHANGED <<cache, clock, procs, store, now>>

\* a day passes
Tick ==
    /\ res = NoCall
    /\ now < MaxClock
    /\ now' = now + 1
    /\ UNCHANGED <<cache, clock, procs, store, model, cps, res>>

\* train_model called by main(); the disk answers the write, if it comes to one
Train ==
    /\ res = NoCall
    /\ \E retailer_id \in RetailerIds, history \in Histories :
        \E t \in {TrainModelCall(store, model, history, retailer_id, write) :
                    write \in WriteOutcomes} :
            /\ store' = t.store
            /\ model' = t.model
            /\ res' = Call("train", Request(retailer_id, history, 0, "D"),
                           t.err, t.events, t.out)
            /\ UNCHANGED <<cache, clock, procs, cps, now>>

LoadModel ==
    /\ res = NoCall
    /\ \E retailer_id \in RetailerIds :
        LET l == LoadModelCall(store, model, retailer_id)
        IN  /\ model' = l.model
            /\ res' = Call("load", Request(retailer_id, <<>>, 0, "D"), NoError, <<>>,
                           [ok |-> l.ok])
            /\ UNCHANGED <<cache, clock, procs, store, cps, now>>

\* predict called by main() or by a caller holding the service; the disk, the
\* fitted model, random.random() and pandas each contribute what they will
Predict ==
    /\ res = NoCall
    /\ \E req \in Requests :
        \E c \in {PredictCall(store, model, req.history, req.predict_periods, req.freq,
                              req.retailer_id, write, env.shape, env.r, env.strict) :
                    write \in WriteOutcomes, env \in Envs} :
            /\ store' = c.store
            /\ model' = c.model
            /\ res' = Call("predict", req, c.err, c.events, c.out)
            /\ UNCHANGED <<cache, clock, procs, cps, now>>

Next == Return \/ Restart \/ Tick \/ Train \/ LoadModel \/ Predict

Spec == Init /\ [][Next]_vars

----------------------------------------------------------------------------
(* _prepare_data on its own, over every short raw history *)

RawStamps == {DateOnly(1), DateTime(1, 0), DateTime(0, HoursPerDay - 1)}

\* y and the three regressor fields of a record
RawPayloads ==
    {<<Num(1), Missing, Missing, Missing>>,
     <<Num(2), Missing, Missing, Missing>>,
     <<Num(1), Num(-300), Str, Num(Scale + 500)>>,
     <<Num(2), Num(700), Missing, Num(0)>>,
     <<Num(3), Num(Scale), Num(250), Str>>,
     <<Missing, Missing, Num(500), Missing>>,
     <<Str, Missing, Missing, Missing>>}

RawRows == {RawRow(ds, p[1], p[2], p[3], p[4]) : ds \in RawStamps, p \in RawPayloads}

RawHistories == UNION {[1..n -> RawRows] : n \in 0..MaxLen}

PrepareOnly ==
    /\ res = NoCall
    /\ \E history \in RawHistories :
        LET p == PrepareData(history)
        IN  res' = Call("prepare", Request(None, history, 0, "D"), p.err, <<>>,
                        [df |-> p.df])
    /\ UNCHANGED <<cache, clock, procs, store, model, cps, now>>

NextPrepare == Return \/ PrepareOnly

\* the service idle over an empty MODEL_DIR
InitIdle == Init /\ store = [s \in Slots |-> Absent]

SpecPrepare == InitIdle /\ [][NextPrepare]_vars

----------------------------------------------------------------------------
(* _calculate_confidence on its own, over every short forecast *)

ForecastPoints ==
    {[ds |-> 0, yhat |-> y, yhat_lower |-> y - w, yhat_upper |-> y + w] :
        y \in {-50, 0, 1, 100}, w \in {0, 2, 60}}

Forecasts == UNION {[1..n -> ForecastPoints] : n \in 0..MaxPoints}

ScoreOnly ==
    /\ res = NoCall
    /\ \E forecast \in Forecasts, r \in RandomDraws, strict \in BOOLEAN :
        LET c == CalculateConfidence(forecast, r, strict)
        IN  res' = Call("confidence", Request(None, <<>>, Len(forecast), "D"), NoError,
                        <<>>, [forecast |-> forecast, r |-> r, confidence |-> c.confidence,
                               first |-> c.first, scoring |-> c.path])
    /\ UNCHANGED <<cache, clock, procs, store, model, cps, now>>

NextConfidence == Return \/ ScoreOnly

SpecConfidence == InitIdle /\ [][NextConfidence]_vars

----------------------------------------------------------------------------
(* Properties *)

\* a call was made in this step: res' holds its input and outcome
CallMade == res = NoCall /\ res' # NoCall

Slot(call) == SlotOf(call.retailer_id)
Failed == [status |-> "failed"]

\* pd.to_datetime of a "YYYY-MM-DD" string: the midnight of the day
ParseDate(day) == day * HoursPerDay

\* C1: predict with an empty history for a retailer whose file is absent or
\* unreadable raises "No history data provided and no trained model available"
\* (the spec's ModelUnavailableError), returns no result and leaves every
\* model file as it was.
C1_NoModelNoHistory ==
    [][(CallMade /\ res'.op = "predict" /\ res'.history = <<>>
            /\ store[Slot(res')] \in {Absent, Corrupt})
        => (res'.err = ErrNoModel /\ res'.out = Failed /\ store' = store)]_vars

\* the call failed that way although the service still held a fitted model
\* in memory from an earlier call
C1_Witness ==
    /\ res.op = "predict" /\ res.history = <<>> /\ res.err = ErrNoModel
    /\ store[Slot(res)] = Corrupt
    /\ IsFitted(model)

\* C2 (as claimed): predict raises the no-model error only when the history is
\* empty and the retailer has no model; with a model in the file and an empty
\* history it succeeds without training, forecasts with the loaded model, and
\* the horizon starts one step after yesterday.
C2_Claim ==
    /\ (res.op = "predict" /\ res.err = ErrNoModel)
            => (res.history = <<>> /\ ~IsFitted(store[Slot(res)]))
    /\ (res.op = "predict" /\ res.history = <<>> /\ res.predict_periods > 0
            /\ IsFitted(store[Slot(res)]))
            => /\ res.err = NoError
               /\ "train" \notin Range(res.events)
               /\ res.out.used = store[Slot(res)]
               /\ res.out.future_df[1].ds = Yesterday + Step(res.freq)

\* C3 (as claimed): every predict that carries a history trains; when it
\* succeeds the forecast comes from a model fitted on that very history, and
\* that model is what the retailer's file holds afterwards.
C3_Claim ==
    (res.op = "predict" /\ res.history # <<>> /\ res.err = NoError)
        => /\ "train" \in Range(res.events)
           /\ res.out.used.df = PrepareData(res.history).df
           /\ store[Slot(res)] = res.out.used

TrainRan(call) == call.op = "train" \/ (call.op = "predict" /\ "train" \in Range(call.events))

\* C4: a train call (direct, or made by predict) whose prepared history has
\* fewer than 10 rows, counted after duplicate ds are removed, raises
\* "Insufficient data for training"; no model is created or fitted, the files
\* and self.model are as before.
C4_TooFewRows ==
    [][(CallMade /\ TrainRan(res') /\ PrepareData(res'.history).err = NoError
            /\ Len(PrepareData(res'.history).df) < 10)
        => (res'.err = ErrInsufficient /\ res'.out = Failed
            /\ "create" \notin Range(res'.events) /\ "fit" \notin Range(res'.events)
            /\ "save" \notin Range(res'.events)
            /\ store' = store
            /\ (res'.op = "train" => model' = model))]_vars

\* ten records of which two share a ds, for a retailer that has a model: the
\* call fails and the model is still there
C4_Witness ==
    /\ res.op = "train" /\ res.history = HistoryDup /\ Len(res.history) = 10
    /\ res.err = ErrInsufficient
    /\ IsFitted(store[Slot(res)])

\* The ds string of a returned point read at the resolution of the frequency:
\* for H it is one hour after the stamp t, for D its date is the day after
\* the date of t.
OneUnitAfter(ds, t, freq) ==
    IF freq = "H" THEN ParseDate(ds) = t + 1
    ELSE ds = Strftime(t) + 1

\* C5 (as claimed): a successful predict over a history of at least 10
\* prepared rows with predict_periods = N > 0 returns N points, and the ds of
\* the first is one unit (an hour for H, a day for D) after the last ds of
\* the prepared history.
C5_Claim ==
    (res.op = "predict" /\ res.err = NoError /\ res.history # <<>>
        /\ Len(PrepareData(res.history).df) >= 10 /\ res.predict_periods > 0
        /\ res.freq \in {"D", "H"})
        => /\ Len(res.out.predictions) = res.predict_periods
           /\ OneUnitAfter(res.out.predictions[1].ds, MaxDs(PrepareData(res.history).df),
                           res.freq)

\* C6 (as claimed): in every result of predict for freq D or H the ds of
\* consecutive points increase strictly, one unit of the requested frequency
\* apart.
C6_Claim ==
    (res.op = "predict" /\ res.err = NoError /\ res.freq \in {"D", "H"})
        => \A i \in 1..(Len(res.out.predictions) - 1) :
              /\ res.out.predictions[i].ds < res.out.predictions[i + 1].ds
              /\ OneUnitAfter(res.out.predictions[i + 1].ds,
                              ParseDate(res.out.predictions[i].ds), res.freq)

\* the input rows of a prepare call that carry the ds of a prepared row
SameDs(call, row) ==
    {j \in 1..Len(call.history) : ToDatetime(call.history[j].ds) = row.ds}

\* what the claim lets a raw regressor value become
Bounded(x) ==
    IF ~IsNum(x) THEN Neutral
    ELSE IF x.v < 0 THEN 0
    ELSE IF x.v > Scale THEN Scale
    ELSE x.v

\* C7: in every frame _prepare_data returns, each of the three regressor
\* values lies in [0, 1]; it is 0.5 when no record carries the column and
\* when the record's value is missing or no number, the nearest bound when
\* the value is out of range, and the value itself otherwise.
C7_RegressorsInRange ==
    (res.op = "prepare" /\ res.err = NoError)
        => \A i \in 1..Len(res.out.df) : \A col \in Range(regressors) :
              /\ res.out.df[i][col] \in 0..Scale
              /\ (\A j \in 1..Len(res.history) : res.history[j][col] = Missing)
                    => res.out.df[i][col] = Neutral
              /\ \E j \in SameDs(res, res.out.df[i]) :
                    res.out.df[i][col] = Bounded(res.history[j][col])

\* one record with a value below 0, a value that is no number and a value
\* above 1: the prepared row holds 0, 0.5 and 1
C7_Witness ==
    /\ res.op = "prepare" /\ res.err = NoError /\ Len(res.history) = 1
    /\ res.history[1].weather_score = Num(-300)
    /\ res.history[1].transport_score = Str
    /\ res.history[1].foot_traffic_score = Num(Scale + 500)
    /\ res.out.df[1].weather_score = 0
    /\ res.out.df[1].transport_score = Neutral
    /\ res.out.df[1].foot_traffic_score = Scale

\* C8: the frame _prepare_data returns is in strictly ascending ds order, so
\* no ds occurs twice, and its ds are exactly the ds of the input records.
C8_SortedUnique ==
    (res.op = "prepare" /\ res.err = NoError)
        => /\ \A i \in 1..(Len(res.out.df) - 1) : res.out.df[i].ds < res.out.df[i + 1].ds
           /\ {res.out.df[i].ds : i \in 1..Len(res.out.df)}
                = {ToDatetime(res.history[j].ds) : j \in 1..Len(res.history)}

\* three records, the later day first and the earlier day twice in two
\* spellings: two rows come back, the earlier day first
C8_Witness ==
    /\ res.op = "prepare" /\ res.err = NoError /\ Len(res.history) = 3
    /\ res.history[1].ds = DateOnly(1)
    /\ res.history[2].ds = DateTime(0, HoursPerDay - 1)
    /\ res.history[3].ds = DateTime(1, 0)
    /\ Len(res.out.df) = 2
    /\ res.out.df[1].ds < res.out.df[2].ds

\* the prepared row is the conversion of the input record at position j
KeptFrom(call, row, j) == row = ConvertRow(call.history, call.history[j])

\* C9 (as claimed): of the input records sharing a ds, the prepared frame
\* holds the last one in input order, with its y and regressor values.
C9_Claim ==
    (res.op = "prepare" /\ res.err = NoError)
        => \A i \in 1..Len(res.out.df) :
              \E j \in SameDs(res, res.out.df[i]) :
                  /\ \A k \in SameDs(res, res.out.df[i]) : k <= j
                  /\ KeptFrom(res, res.out.df[i], j)

\* C9 (amended): of the input records sharing a ds, the prepared frame holds
\* the first one in input order, with its y and regressor values.
C9_KeepsFirst ==
    (res.op = "prepare" /\ res.err = NoError)
        => \A i \in 1..Len(res.out.df) :
              \E j \in SameDs(res, res.out.df[i]) :
                  /\ \A k \in SameDs(res, res.out.df[i]) : j <= k
                  /\ KeptFrom(res, res.out.df[i], j)

\* two records of one day with different y and regressor values: the row
\* that comes back is the first, not the second
C9_Witness ==
    /\ res.op = "prepare" /\ res.err = NoError /\ Len(res.history) = 2
    /\ ToDatetime(res.history[1].ds) = ToDatetime(res.history[2].ds)
    /\ res.history[1].y = Num(2) /\ res.history[2].y = Num(3)
    /\ Len(res.out.df) = 1
    /\ KeptFrom(res, res.out.df[1], 1)
    /\ ~KeptFrom(res, res.out.df[1], 2)

\* C10: the confidence _calculate_confidence returns lies in [0.65, 0.92]
\* whether it comes from the scoring path or from the fallback of the except
\* branch, and on the scoring path the value after the first clamp lies in
\* that range as well.
C10_ConfidenceInRange ==
    /\ (res.op = "confidence")
            => /\ res.out.confidence \in ConfLow..ConfHigh
               /\ res.out.first \in ConfLow..ConfHigh
    /\ (res.op = "predict" /\ res.err = NoError)
            => res.out.confidence \in ConfLow..ConfHigh

\* a forecast that scores 0.92 at the first clamp and draws the largest
\* perturbation: the second clamp brings it back to 0.92
C10_Witness ==
    /\ res.op = "confidence" /\ res.out.scoring = "main"
    /\ res.out.first = ConfHigh
    /\ res.out.r = Scale - 1
    /\ res.out.confidence = ConfHigh

\* the band of the except branch of _calculate_confidence: 0.75 -/+ 0.05
FallbackLow == FallbackMid - FallbackSpan \div 2
FallbackHigh == FallbackMid + FallbackSpan \div 2

\* C11: when the computation of the score raises inside _calculate_confidence,
\* predict does not fail: the result carries a confidence in [0.70, 0.80] and
\* one prediction per future row, with the values the model gave.
C11_ScorerFailureRecovered ==
    (res.op = "predict" /\ res.err = NoError /\ res.out.scoring = "fallback")
        => /\ res.out.confidence \in FallbackLow..FallbackHigh
           /\ Len(res.out.predictions) = res.predict_periods
           /\ \A i \in 1..Len(res.out.predictions) :
                 /\ res.out.predictions[i].ds = Strftime(res.out.future_df[i].ds)
                 /\ res.out.predictions[i].yhat = ShapePoint("zero", i).yhat

\* a forecast of zeros made the score divide by zero and raise; predict
\* returned its two points with the lowest confidence of the band
C11_Witness ==
    /\ res.op = "predict" /\ res.err = NoError /\ res.out.scoring = "fallback"
    /\ res.out.confidence = FallbackLow
    /\ Len(res.out.predictions) = 2

\* C12: load_model on a file that is missing or unreadable raises nothing and
\* returns False, leaving self.model alone; predict then takes the retailer
\* as untrained: with a history it trains and forecasts with the model fitted
\* in this call, without one it raises the no-model error.  A model the
\* service still holds from an earlier call is never what forecasts.
C12_UnreadableIsUntrained ==
    [][(CallMade /\ store[Slot(res')] \in {Absent, Corrupt})
        => /\ (res'.op = "load")
                => (res'.err = NoError /\ res'.out.ok = FALSE /\ model' = model)
           /\ (res'.op = "predict")
                => /\ res'.events[1] = "load failed"
                   /\ (res'.history = <<>>) => res'.err = ErrNoModel
                   /\ (res'.history # <<>>) => "train" \in Range(res'.events)
                   /\ (res'.err = NoError)
                        => /\ res'.out.used = Fit(CreateModel(cps), Prepared(res'.history).df, now)
                           /\ res'.out.used = store'[Slot(res')]]_vars

\* the retailer's file was missing or unreadable while the service held a
\* fitted model from an earlier call; predict with a short history went to
\* train and failed there instead of forecasting with the held model
C12_Witness ==
    /\ res.op = "predict" /\ res.events = <<"load failed", "train", "prepare">>
    /\ res.err = ErrInsufficient
    /\ IsFitted(model)
    /\ store[Slot(res)] \in {Absent, Corrupt}

\* C13: when the write of the model file does not complete, train_model
\* raises the error of the write and returns no "success" result, and a
\* predict that called it raises as well.  A call that reached the write is
\* one that fitted; it returns only when the file holds the fitted model.
C13_WriteFailureIsFatal ==
    TrainRan(res)
        => /\ ("fit" \in Range(res.events) /\ "save" \notin Range(res.events))
                => (res.err = ErrWrite /\ res.out = Failed)
           /\ (res.err = NoError)
                => /\ "save" \in Range(res.events)
                   /\ IsFitted(store[Slot(res)])
                   /\ store[Slot(res)] = model

\* predict trained, the write stopped half way: predict raised the error of
\* the write and returned no forecast
C13_Witness ==
    /\ res.op = "predict" /\ "train" \in Range(res.events)
    /\ res.err = ErrWrite /\ res.out = Failed
    /\ store[Slot(res)] = Corrupt
    /\ IsFitted(model)

\* a train or predict call was made in this step
Served == CallMade /\ res'.op \in {"train", "predict"}

\* C14 (as claimed): every id a request carries names an entity with a file
\* of its own, and a request without id uses the default file: a train or
\* predict call for one entity leaves the file of every other entity as it
\* was, and the default file too when the request carries an id.
C14_Claim ==
    [][Served
        => /\ \A b \in RetailerIds :
                b # res'.retailer_id => store'[SlotOf(b)] = store[SlotOf(b)]
           /\ (res'.retailer_id # None) => store'[SlotOf(None)] = store[SlotOf(None)]]_vars

\* C14 (amended): the empty id counts as no id.  Distinct non-empty ids have
\* distinct files, none of them the default file, which is the file of a
\* request with no id or an empty one; a train or predict call, whether it
\* succeeds or fails, leaves every file but the one of its own id as it was.
C14_SlotsPartitioned ==
    [][/\ SlotOf("") = SlotOf(None)
       /\ \A a, b \in (RetailerIds \cup {"B"}) \ {None, ""} :
            /\ SlotOf(a) # SlotOf(None)
            /\ (a # b) => SlotOf(a) # SlotOf(b)
       /\ Served
            => \A s \in Slots : s # SlotOf(res'.retailer_id) => store'[s] = store[s]]_vars

\* a successful train for retailer "A" while the default file holds another
\* model
C14_Witness ==
    /\ res.op = "train" /\ res.retailer_id = "A" /\ res.err = NoError
    /\ store[SlotOf("A")] = model
    /\ IsFitted(store[SlotOf(None)])
    /\ store[SlotOf(None)] # store[SlotOf("A")]

\* C15 (as claimed): a file that holds a model holds one for ever after;
\* what it holds changes only in a train call (direct, or made by predict)
\* for the retailer of that file which succeeds, and then it holds the model
\* that call fitted.
C15_Claim ==
    [][\A s \in Slots :
        IsFitted(store[s])
            => /\ IsFitted(store'[s])
               /\ (store'[s] # store[s])
                    => /\ CallMade /\ TrainRan(res') /\ res'.err = NoError
                       /\ Slot(res') = s
                       /\ store'[s] = model']_vars

----------------------------------------------------------------------------
(* train_model in two processes at once.  joblib.dump writes the file in   *)
(* place: it opens the path for writing, which empties the file, and       *)
(* writes the pickle in pieces; nothing is locked and nothing is renamed.  *)

Hole == [k |-> "hole"]          \* a piece of the file no one has written yet
Bytes(chunks) == [k |-> "bytes", chunks |-> chunks]

\* write(piece i) of the pickle of m through a descriptor of its own offset
WriteAt(chunks, i, m) ==
    [j \in 1..(IF i > Len(chunks) THEN i ELSE Len(chunks)) |->
        IF j = i THEN m ELSE IF j <= Len(chunks) THEN chunks[j] ELSE Hole]

\* pieces of two pickles of the same layout unpickle to a model made of both
Hybrid(a, b) == [k |-> "fitted", cps |-> a.cps, df |-> b.df, at |-> a.at]

\* What joblib.load can make of a file: the model when every piece is of one
\* pickle; an exception when pieces are missing; an exception or a model made
\* of both when the pieces are of two pickles.
Reads(file) ==
    IF file.k # "bytes" THEN {file}
    ELSE IF Len(file.chunks) < MaxChunks \/ \E i \in 1..MaxChunks : file.chunks[i] = Hole
    THEN {Corrupt}
    ELSE IF \A i \in 1..MaxChunks : file.chunks[i] = file.chunks[1]
    THEN {file.chunks[1]}
    ELSE {Corrupt, Hybrid(file.chunks[1], file.chunks[MaxChunks])}

\* the histories the two processes train on
RaceHistories == {HistoryA, HistoryB}

\* lines 148-163 in process p: prepare, fit, choose the path
RaceFit(p) ==
    /\ procs[p] = Idle
    /\ \E retailer_id \in RetailerIds, history \in RaceHistories :
        procs' = [procs EXCEPT ![p] =
                    [pc |-> "fitted", retailer_id |-> retailer_id,
                     m |-> Fit(CreateModel(cps), Prepared(history).df, now)]]
    /\ UNCHANGED <<cache, clock, store, model, cps, now, res>>

\* joblib.dump opens model_path with mode 'wb'
RaceOpen(p) ==
    /\ procs[p].pc = "fitted"
    /\ store' = [store EXCEPT ![SlotOf(procs[p].retailer_id)] = Bytes(<<>>)]
    /\ procs' = [procs EXCEPT ![p] = [@ EXCEPT !.pc = "writing"] @@ [pos |-> 0]]
    /\ UNCHANGED <<cache, clock, model, cps, now, res>>

\* joblib.dump writes the next piece; with the last piece written it returns
\* and train_model returns "success".  rank tells the order in which the
\* calls completed.
RaceWrite(p) ==
    /\ procs[p].pc = "writing"
    /\ procs[p].pos < MaxChunks
    /\ LET path == SlotOf(procs[p].retailer_id)
           old == IF store[path].k = "bytes" THEN store[path].chunks ELSE <<>>
       IN  store' = [store EXCEPT ![path] = Bytes(WriteAt(old, procs[p].pos + 1, procs[p].m))]
    /\ procs' = [procs EXCEPT ![p] =
                    IF procs[p].pos + 1 < MaxChunks
                    THEN [@ EXCEPT !.pos = @ + 1]
                    ELSE [pc |-> "done", retailer_id |-> procs[p].retailer_id,
                          m |-> procs[p].m,
                          rank |-> 1 + Cardinality({q \in Procs : procs[q].pc = "done"})]]
    /\ UNCHANGED <<cache, clock, model, cps, now, res>>

\* load_model of a service of its own, at any moment
RaceLoad ==
    /\ res = NoCall
    /\ \E retailer_id \in RetailerIds :
        \E f \in Reads(store[SlotOf(retailer_id)]) :
            LET l == LoadModelCall([store EXCEPT ![SlotOf(retailer_id)] = f], NoModel,
                                   retailer_id)
            IN  res' = Call("load", Request(retailer_id, <<>>, 0, "D"), NoError, <<>>,
                            [ok |-> l.ok, model |-> l.model])
    /\ UNCHANGED <<cache, clock, store, model, cps, now, procs>>

NextRace ==
    \/ Return
    \/ RaceLoad
    \/ \E p \in Procs : RaceFit(p) \/ RaceOpen(p) \/ RaceWrite(p)

SpecRace == Init /\ [][NextRace]_vars

\* both calls completed, for the same file, and p was the last to complete
LastOfTwo(p) ==
    /\ \A q \in Procs : procs[q].pc = "done"
    /\ \A q \in Procs :
        /\ SlotOf(procs[q].retailer_id) = SlotOf(procs[p].retailer_id)
        /\ procs[q].rank <= procs[p].rank

\* C16 (as claimed): when two train calls for one retailer run at once, the
\* file holds, once both have completed, the whole model of the call that
\* completed last and nothing of the other; and a load_model that runs while
\* they write returns False or loads the whole model of one of the calls.
C16_Claim ==
    /\ \A p \in Procs :
        LastOfTwo(p) => Reads(store[SlotOf(procs[p].retailer_id)]) = {procs[p].m}
    /\ (res.op = "load" /\ res.out.ok)
        => \E p \in Procs : procs[p].pc # "idle" /\ res.out.model = procs[p].m

\* C17: after a train_model call that succeeded, load_model for the same
\* retailer_id -- in this service or in a new one, with an id or without --
\* returns True and has self.model equal to the model the call fitted on the
\* prepared history; the call reported the row count of the prepared frame
\* as data_points and, as model_path, the file load_model reads.  And
\* whenever the retailer's file holds a model, load_model loads exactly it.
C17_SaveLoadRoundTrip ==
    [][CallMade
        => /\ (res'.op = "train" /\ res'.err = NoError)
                => LET l == LoadModelCall(store', NoModel, res'.retailer_id)
                   IN  /\ l.ok
                       /\ l.model = model'
                       /\ l.model = Fit(CreateModel(cps), PrepareData(res'.history).df, now)
                       /\ res'.out.data_points = Len(PrepareData(res'.history).df)
                       /\ res'.out.model_path = SlotOf(res'.retailer_id)
                       /\ store'[res'.out.model_path] = l.model
           /\ (res'.op = "load" /\ IsFitted(store[Slot(res')]))
                => (res'.out.ok /\ model' = store[Slot(res')])]_vars

\* load_model for retailer "A" returned True and the service holds the model
\* of that retailer's file, which is not the model of the default file
C17_Witness ==
    /\ res.op = "load" /\ res.retailer_id = "A" /\ res.out.ok
    /\ model = store[SlotOf("A")]
    /\ IsFitted(model)
    /\ model # store[SlotOf(None)]

----------------------------------------------------------------------------
(* The future frame of predict (lines 221-264) on its own, over the        *)
(* histories of the requests and every raw history of up to MaxShort rows  *)

FutureHistories == Histories \cup UNION {[1..n -> RawRows] : n \in 0..MaxShort}

FutureOnly ==
    /\ res = NoCall
    /\ \E history \in FutureHistories, n \in Periods, freq \in Freqs :
        LET f == FutureOf(history, n, freq)
        IN  res' = Call("future", Request(None, history, n, freq), f.err, <<>>,
                        [future_df |-> f.future_df])
    /\ UNCHANGED <<cache, clock, procs, store, model, cps, now>>

NextFuture == Return \/ FutureOnly

SpecFuture == InitIdle /\ [][NextFuture]_vars

\* the sum of a regressor over the last k rows of a frame
TailSum(df, col, k) == SumTo([j \in 1..k |-> df[Len(df) - k + j][col]], k)

\* C18: in the future frame predict builds, every row carries for each
\* regressor one and the same value: the mean (to the unit of the fixed
\* point) of that regressor over the last min(7, n) rows of the n rows of
\* the prepared history, and 0.5 when the request has no history.
C18_RegressorTailMean ==
    (res.op = "future" /\ res.err = NoError)
        => \A i \in 1..Len(res.out.future_df) : \A col \in Range(regressors) :
              LET v == res.out.future_df[i][col]
                  df == PrepareData(res.history).df
                  k == IF Len(df) < TailLen THEN Len(df) ELSE TailLen
              IN  IF res.history = <<>> THEN v = Neutral
                  ELSE /\ k * v <= TailSum(df, col, k)
                       /\ TailSum(df, col, k) < k * (v + 1)

\* eleven hourly rows whose weather_score rises to 1.0 over the first seven:
\* both future rows carry the mean of the last seven, which is above the mean
\* of all eleven
C18_Witness ==
    /\ res.op = "future" /\ res.err = NoError /\ res.history = HistoryB
    /\ Len(res.out.future_df) = 2
    /\ res.out.future_df[1].weather_score = res.out.future_df[2].weather_score
    /\ LET df == PrepareData(HistoryB).df
       IN  /\ Len(df) > TailLen
           /\ TailLen * res.out.future_df[1].weather_score
                <= TailSum(df, "weather_score", TailLen)
           /\ Len(df) * res.out.future_df[1].weather_score
                > TailSum(df, "weather_score", Len(df))

\* C19 (as claimed): the model_meta of a result of predict tells of the
\* model that made the forecast: trained_on is the time that model was
\* fitted, changepoint_prior_scale the value it was created with.
C19_Claim ==
    (res.op = "predict" /\ res.err = NoError)
        => /\ res.out.model_meta.trained_on = res.out.used.at
           /\ res.out.model_meta.changepoint_prior_scale = res.out.used.cps

\* a history train_model accepts and Prophet can fit
Trainable(history) ==
    /\ history # <<>>
    /\ PrepareData(history).err = NoError
    /\ ~TooFew(PrepareData(history).df)
    /\ ~FitFails(PrepareData(history).df)

\* C20 (as claimed): predict with predict_periods <= 0 and a history that
\* can be trained on raises nothing (short of a failed write of the model
\* file): it returns a result with no predictions, its model_meta, and a
\* confidence in [0.65, 0.92].
C20_Claim ==
    (res.op = "predict" /\ res.predict_periods <= 0 /\ Trainable(res.history)
        /\ res.err # ErrWrite)
        => /\ res.err = NoError
           /\ res.out.predictions = <<>>
           /\ res.out.model_meta.predict_periods = res.predict_periods
           /\ res.out.confidence \in ConfLow..ConfHigh

----------------------------------------------------------------------------
(* KaggleTransportService (backend/python/kaggle_transport_service.py).    *)
(* The clock counts hours; datetime.now().timestamp() is in seconds.  The  *)
(* file at CACHE_FILE is Absent, Corrupt (no JSON document: a write that   *)
(* failed part-way, or a writer caught in the middle) or a JSON object.    *)

MaxHours == 7       \* datetime.now() of the transport service ranges over 0..MaxHours hours

DEFAULT_CACHE_HOURS == 6        \* DEFAULT_CACHE_HOURS = 6
SecondsPerHour == 3600          \* self.cache_duration_hours * 3600
FallbackImpact == 75            \* 'impact_score': 75.0

\* datetime.now().timestamp() at hour t
Timestamp(t) == t * SecondsPerHour

\* datetime.now().hour at hour t
HourOfDay(t) == t % HoursPerDay

DefaultPeakHours == {7, 8, 9, 12, 13, 17, 18, 19}
NoPeakData == [k |-> "None"]

\* self._is_peak_hour_real(hour, peak_data=None)
IsPeakHourReal(hour, peak_data) ==
    IF peak_data # NoPeakData /\ "all_peaks" \in DOMAIN peak_data
    THEN hour \in peak_data.all_peaks
    ELSE hour \in DefaultPeakHours

\* json.dump(data, f): the object as its members in the file
JsonDump(data) == [k |-> "json", members |-> {<<key, data[key]>> : key \in DOMAIN data}]

\* json.load(f) of a file that holds a JSON object
JsonLoad(file) ==
    [key \in {m[1] : m \in file.members} |-> (CHOOSE m \in file.members : m[1] = key)[2]]

\* cache_data.get(key, default)
DictGet(data, key, default) == IF key \in DOMAIN data THEN data[key] ELSE default

\* self._get_fallback_data() at hour t
GetFallbackData(t) ==
    LET peak == IsPeakHourReal(HourOfDay(t), NoPeakData)
    IN  [bus_availability |-> IF peak THEN 85 * Scale ELSE 75 * Scale,
         train_frequency |-> IF peak THEN 90 * Scale ELSE 80 * Scale,
         congestion_level |-> IF peak THEN 55 * Scale ELSE 35 * Scale,
         impact_score |-> FallbackImpact * Scale,
         peak_hour |-> peak,
         real_data |-> FALSE,
         source |-> "fallback",
         timestamp |-> t,
         note |-> "Using fallback data - Kaggle API unavailable"]

\* what the analysis of a downloaded dataset comes to: the overall score
\* and the peak hours found in the ridership
Datasets ==
    { [score |-> 0, peaks |-> [all_peaks |-> {}]],
      [score |-> 100 * Scale, peaks |-> [all_peaks |-> {0, 1, 7}]] }

\* what the world answers to one call: the fetch (kagglehub missing, the
\* download failing, no CSV file, a CSV file pandas cannot read, an error
\* while processing, or a dataset), the write of the cache file, and
\* whether the file read by _is_cache_valid can be read again
FetchOutcomes == {"no_kagglehub", "download_error", "no_csv", "read_error", "process_error", "ok"}
SaveOutcomes == {"ok", "refused", "torn"}
TransportEnvs == [fetch : FetchOutcomes, data : Datasets, save : SaveOutcomes, reread : BOOLEAN]

ErrDownload == "dataset_download failed"
ErrReadCsv == "read_csv failed"

\* self._process_transport_data(df, ...) at hour t
ProcessTransportData(t, env) ==
    IF env.fetch = "process_error"
    THEN GetFallbackData(t)
    ELSE [impact_score |-> env.data.score,
          peak_hour |-> IsPeakHourReal(HourOfDay(t), env.data.peaks),
          real_data |-> TRUE,
          source |-> "kaggle_api",
          timestamp |-> t,
          cache_expires |-> Timestamp(t) + DEFAULT_CACHE_HOURS * SecondsPerHour]

\* _is_cache_valid with <= for <
IsCacheValidInclusive(file, t) ==
    IF file = Absent THEN FALSE
    ELSE IF file = Corrupt THEN FALSE
    ELSE Timestamp(t) <= DictGet(JsonLoad(file), "cache_expires", 0)

\* self._is_cache_valid() at hour t
IsCacheValid(file, t) ==
    IF file = Absent THEN FALSE
    ELSE IF file = Corrupt THEN FALSE
    ELSE Timestamp(t) < DictGet(JsonLoad(file), "cache_expires", 0)

\* self._load_from_cache() at hour t, of the file as it is read now
LoadFromCache(file, t) ==
    IF file = Absent \/ file = Corrupt THEN GetFallbackData(t) ELSE JsonLoad(file)

\* self._save_to_cache(data): the file afterwards
SaveToCache(file, data, save) ==
    CASE save = "ok" -> JsonDump(data)
      [] save = "refused" -> file
      [] save = "torn" -> Corrupt

TransportResult(err, out, file, fetched) == [err |-> err, out |-> out, file |-> file, fetched |-> fetched]
NoRecord == [k |-> "nothing"]

\* the try block of load_transport_data
LoadTransportBody(file, t, force_refresh, env) ==
    IF ~force_refresh /\ IsCacheValid(file, t)
    THEN TransportResult(NoError, LoadFromCache(IF env.reread THEN file ELSE Corrupt, t), file, FALSE)
    ELSE CASE env.fetch = "no_kagglehub" -> TransportResult(NoError, GetFallbackData(t), file, TRUE)
           [] env.fetch = "download_error" -> TransportResult(ErrDownload, NoRecord, file, TRUE)
           [] env.fetch = "no_csv" -> TransportResult(NoError, GetFallbackData(t), file, TRUE)
           [] env.fetch = "read_error" -> TransportResult(ErrReadCsv, NoRecord, file, TRUE)
           [] OTHER ->
                LET processed_data == ProcessTransportData(t, env)
                IN  TransportResult(NoError, processed_data, SaveToCache(file, processed_data, env.save), TRUE)

\* load_transport_data without its except clause
LoadTransportReraises(file, t, force_refresh, env) == LoadTransportBody(file, t, force_refresh, env)

\* self.load_transport_data(force_refresh) at hour t
LoadTransportData(file, t, force_refresh, env) ==
    LET b == LoadTransportBody(file, t, force_refresh, env)
    IN  IF b.err # NoError
        THEN TransportResult(NoError, GetFallbackData(t), b.file, b.fetched)
        ELSE b

TransportCall(file, t, force_refresh, env) ==
    LET r == LoadTransportData(file, t, force_refresh, env)
    IN  [res |-> [op |-> "load_transport_data", force_refresh |-> force_refresh, at |-> t,
                  before |-> file, env |-> env, err |-> r.err, fetched |-> r.fetched, out |-> r.out],
         file |-> r.file]

\* main() --action fetch [--force-refresh]
Fetch ==
    /\ res = NoCall
    /\ \E c \in {TransportCall(cache, clock, f, env) : f \in BOOLEAN, env \in TransportEnvs} :
        /\ res' = c.res
        /\ cache' = c.file
    /\ UNCHANGED <<clock, procs, store, model, cps, now>>

\* main() --action status
Status ==
    /\ res = NoCall
    /\ res' = [op |-> "status", at |-> clock, before |-> cache, out |-> IsCacheValid(cache, clock)]
    /\ UNCHANGED <<cache, clock, procs, store, model, cps, now>>

\* an hour passes
Hour ==
    /\ res = NoCall
    /\ clock < MaxHours
    /\ clock' = clock + 1
    /\ UNCHANGED <<cache, procs, store, model, cps, now, res>>

NextTransport == Return \/ Fetch \/ Status \/ Hour

SpecTransport == InitIdle /\ [][NextTransport]_vars

\* the call took a failure path: the fetch did not come to a processed
\* dataset, or the cache to be served could not be read
FailurePath ==
    \/ res.fetched /\ res.env.fetch # "ok"
    \/ ~res.fetched /\ ~res.env.reread

\* C21: load_transport_data never raises and always returns a metrics
\* record: on every failure path (client library missing, download error,
\* no CSV files, processing error, unreadable cache) the fallback record
\* with source 'fallback' and real_data false, and otherwise a processed
\* record with source 'kaggle_api' and real_data true.
C21_AlwaysARecord ==
    res.op = "load_transport_data"
        => /\ res.err = NoError
           /\ {"impact_score", "peak_hour", "real_data", "source", "timestamp"} \subseteq DOMAIN res.out
           /\ FailurePath
                => /\ res.out.source = "fallback" /\ res.out.real_data = FALSE
                   /\ res.out = GetFallbackData(res.at)
           /\ ~FailurePath
                => /\ res.out.source = "kaggle_api" /\ res.out.real_data = TRUE
                   /\ "cache_expires" \in DOMAIN res.out

\* the download failed while the cache held a processed record that had
\* expired: the fallback record came back and the cache was left alone
C21_Witness ==
    /\ res.op = "load_transport_data"
    /\ res.fetched /\ res.env.fetch = "download_error"
    /\ res.before # Absent /\ res.before # Corrupt
    /\ cache = res.before
    /\ res.out.source = "fallback"

\* the record the cache file held when the call came, if it held one
Held == IF res.before = Absent \/ res.before = Corrupt THEN NoRecord ELSE JsonLoad(res.before)

\* the call came before the cache_expires of the record the file held
InWindow == "cache_expires" \in DOMAIN Held /\ Timestamp(res.at) < Held.cache_expires

\* C22: the transport cache is served only inside its validity window.
\* load_transport_data returns the cached record without fetching exactly
\* when force_refresh is false and the time is before the record's
\* cache_expires, which is the time the record was made and written plus
\* 6 hours (the one exception being a cache file that can no longer be
\* read when it is to be served); with force_refresh, from the expiry on,
\* or when the cached record is a fallback record (it has no
\* cache_expires) the call fetches, so a cached fallback record is never
\* served.
C22_ValidityWindow ==
    res.op = "load_transport_data"
        => /\ ~res.fetched <=> (~res.force_refresh /\ InWindow)
           /\ (~res.fetched /\ res.env.reread) => res.out = Held
           /\ "cache_expires" \in DOMAIN Held
                => Held.cache_expires = Timestamp(Held.timestamp + 6)
           /\ (res.fetched /\ res.env.fetch = "ok" /\ res.env.save = "ok")
                => /\ cache = JsonDump(res.out)
                   /\ res.out.cache_expires = Timestamp(res.at + 6)
           /\ ("source" \in DOMAIN Held /\ Held.source = "fallback")
                => /\ "cache_expires" \notin DOMAIN Held
                   /\ res.fetched

\* a call without force_refresh in the last hour of the window of a
\* processed record is served that record from the cache
C22_Witness ==
    /\ res.op = "load_transport_data"
    /\ ~res.force_refresh /\ ~res.fetched
    /\ res.out = Held
    /\ res.out.source = "kaggle_api"
    /\ res.out.cache_expires = Timestamp(res.at + 1)

====
